---- MODULE Spec2Model ----
(***************************************************************************)
(* Postage-stamp authorizer of crates/primitives/src/postage/mod.rs:       *)
(* PostageAuthorizer with its batches map and ChunkAuthorizations; the     *)
(* bucket accountant Pat of postage/pat.rs; the staged BatchBuilder of     *)
(* postage/batch.rs with Batch::depth_for_size; the BMTBody of             *)
(* chunk/bmt_body.rs with its cached hash; the SingleOwnerChunk of         *)
(* chunk/single_owner.rs.  Each component has its own specification; the   *)
(* variables of the other components stay as Init leaves them.             *)
(***************************************************************************)
EXTENDS Integers, FiniteSets, Sequences, TLC

\* ---------------------------------------------------------------- bounds
MaxBatches == 2        \* batch ids 1..MaxBatches
MaxTime == 2           \* Timestamp values 0..MaxTime (u64 in the code)
MaxAuth == 2           \* cap on total_count in the guard of RecordStamp

BatchIds == 1..MaxBatches
Timestamps == 0..MaxTime
ChunkAddresses == {1, 2}
Depths == {0, 1}
\* stamp indices: 0 and 1 are within 2^1, 1 is outside 2^0, 2 is outside both
StampIndices == {0, 1, 2}
Amounts == {1000}
Immutables == {TRUE}

\* Option<T>: None is the empty tuple, Some(v) the tuple <<v>>
None == << >>
Some(v) == <<v>>

VARIABLES
    batches,      \* PostageAuthorizer.batches : BatchId -> BatchInfo (partial)
    chunk_auths,  \* PostageAuthorizer.chunk_auths : ChunkAuthorizations
    last,         \* the last call: its operation, arguments and return value
    pat,          \* the Pat value (pat.rs), [state |-> "none"] before Pat::new
    landed,       \* per bucket, the number of Pat::inc calls that returned Ok
    builder,      \* the BatchBuilder value (batch.rs) and its type-state
    body,         \* the BMTBody value (bmt_body.rs) and the threads calling hash()
    soc           \* the SingleOwnerChunk value (single_owner.rs)

vars == <<batches, chunk_auths, last, pat, landed, builder, body, soc>>

\* ------------------------------------------------------------- BatchInfo
max_stamps(info) == 2 ^ info.depth

is_stamp_used(info, index) == index \in info.used_stamps

use_stamp_any_index(info, index) ==
    [ret |-> index \notin info.used_stamps,
     info |-> [info EXCEPT !.used_stamps = @ \cup {index}]]

\* returns the bool of the code and the BatchInfo as the call leaves it
use_stamp(info, index) ==
    IF index >= max_stamps(info)
    THEN [ret |-> FALSE, info |-> info]
    ELSE [ret |-> index \notin info.used_stamps,
          info |-> [info EXCEPT !.used_stamps = @ \cup {index}]]

\* --------------------------------------------------- ChunkAuthorizations
\* HashMap entry(chunk).or_default().insert(pair); the count grows only when
\* the pair is new under that chunk
add(ca, chunk, batch_id, stamp_index) ==
    LET pair == <<batch_id, stamp_index>>
        old == IF chunk \in DOMAIN ca.authorizations
               THEN ca.authorizations[chunk] ELSE {}
        auths == [c \in DOMAIN ca.authorizations \cup {chunk} |->
                    IF c = chunk THEN old \cup {pair}
                    ELSE ca.authorizations[c]]
    IN  [authorizations |-> auths,
         total_count |-> IF pair \in old THEN ca.total_count
                         ELSE ca.total_count + 1]

\* the retain closure's accumulation: removed += before_len - auths.len()
RECURSIVE removed_count(_, _, _)
removed_count(auths, batch_id, chunks) ==
    IF chunks = {} THEN 0
    ELSE LET c == CHOOSE x \in chunks : TRUE
             before_len == Cardinality(auths[c])
             kept == {p \in auths[c] : p[1] # batch_id}
         IN  (before_len - Cardinality(kept))
               + removed_count(auths, batch_id, chunks \ {c})

\* PostageAuthorizer::new
new_chunk_auths == [authorizations |-> << >>, total_count |-> 0]

\* the map that the outer retain leaves: inner retain drops the batch's pairs,
\* the closure's result !auths.is_empty() drops the emptied chunks
retain_keeps_empty(auths, batch_id) ==
    [c \in DOMAIN auths |-> {p \in auths[c] : p[1] # batch_id}]

retain(auths, batch_id) ==
    LET kept(c) == {p \in auths[c] : p[1] # batch_id}
        keep == {c \in DOMAIN auths : kept(c) # {}}
    IN  [c \in keep |-> kept(c)]

remove_batch_no_decrement(ca, batch_id) ==
    LET removed == removed_count(ca.authorizations, batch_id,
                                 DOMAIN ca.authorizations)
    IN  [chunk_auths |-> [authorizations |-> retain(ca.authorizations, batch_id),
                          total_count |-> ca.total_count],
         ret |-> removed]

remove_batch(ca, batch_id) ==
    LET removed == removed_count(ca.authorizations, batch_id,
                                 DOMAIN ca.authorizations)
    IN  [chunk_auths |-> [authorizations |-> retain(ca.authorizations, batch_id),
                          total_count |-> ca.total_count - removed],
         ret |-> removed]

\* ----------------------------------------------------- PostageAuthorizer
add_batch_overwrites(bs, id, depth, expires_at, amount_per_chunk, immutable) ==
    [result |-> "Ok",
     batches |-> [b \in DOMAIN bs \cup {id} |->
                    IF b = id
                    THEN [expires_at |-> expires_at, depth |-> depth,
                          amount_per_chunk |-> amount_per_chunk,
                          used_stamps |-> {}, immutable |-> immutable]
                    ELSE bs[b]]]

add_batch(bs, id, depth, expires_at, amount_per_chunk, immutable) ==
    IF id \in DOMAIN bs
    THEN [result |-> "InvalidState", batches |-> bs]
    ELSE [result |-> "Ok",
          batches |-> [b \in DOMAIN bs \cup {id} |->
                         IF b = id
                         THEN [expires_at |-> expires_at, depth |-> depth,
                               amount_per_chunk |-> amount_per_chunk,
                               used_stamps |-> {}, immutable |-> immutable]
                         ELSE bs[b]]]

authorized_chunk_count(ca) == ca.total_count

\* proof = [batch_id, stamp_index, timestamp, signature_ok]; signature_ok is
\* the outcome of proof.verify_signature(), an input of the call.  The chunk
\* parameter is not read by the code.
validate_expiry_strict(bs, chunk, proof) ==
    IF proof.batch_id \notin DOMAIN bs THEN "batch not found"
    ELSE LET batch == bs[proof.batch_id] IN
         IF batch.expires_at < proof.timestamp THEN "Expired"
         ELSE IF is_stamp_used(batch, proof.stamp_index)
              THEN "stamp already used"
         ELSE IF proof.stamp_index >= max_stamps(batch)
              THEN "invalid stamp index"
         ELSE IF ~proof.signature_ok THEN "Crypto"
         ELSE "Ok"

validate_index_inclusive(bs, chunk, proof) ==
    IF proof.batch_id \notin DOMAIN bs THEN "batch not found"
    ELSE LET batch == bs[proof.batch_id] IN
         IF batch.expires_at <= proof.timestamp THEN "Expired"
         ELSE IF is_stamp_used(batch, proof.stamp_index)
              THEN "stamp already used"
         ELSE IF proof.stamp_index > max_stamps(batch)
              THEN "invalid stamp index"
         ELSE IF ~proof.signature_ok THEN "Crypto"
         ELSE "Ok"

validate(bs, chunk, proof) ==
    IF proof.batch_id \notin DOMAIN bs THEN "batch not found"
    ELSE LET batch == bs[proof.batch_id] IN
         IF batch.expires_at <= proof.timestamp THEN "Expired"
         ELSE IF is_stamp_used(batch, proof.stamp_index)
              THEN "stamp already used"
         ELSE IF proof.stamp_index >= max_stamps(batch)
              THEN "invalid stamp index"
         ELSE IF ~proof.signature_ok THEN "Crypto"
         ELSE "Ok"

expired_batches_strict(bs, now) ==
    {id \in DOMAIN bs : bs[id].expires_at < now}

expired_batches_first_only(bs, now) ==
    LET all == {id \in DOMAIN bs : bs[id].expires_at <= now}
    IN  IF all = {} THEN {} ELSE {CHOOSE id \in all : TRUE}

\* the Vec collected by the filter over self.batches
expired_batches(bs, now) ==
    {id \in DOMAIN bs : bs[id].expires_at <= now}

\* the for loop over expired_batches; the Vec's order is the HashMap's
\* iteration order, and the loop's result does not depend on it
RECURSIVE cleanup_loop_keeps_batches(_, _, _, _)
cleanup_loop_keeps_batches(bs, ca, todo, total_cleaned) ==
    IF todo = {}
    THEN [batches |-> bs, chunk_auths |-> ca, ret |-> total_cleaned]
    ELSE LET batch_id == CHOOSE x \in todo : TRUE
             r == remove_batch(ca, batch_id)
         IN  cleanup_loop_keeps_batches(bs, r.chunk_auths, todo \ {batch_id},
                                        total_cleaned + r.ret)

RECURSIVE cleanup_loop(_, _, _, _)
cleanup_loop(bs, ca, todo, total_cleaned) ==
    IF todo = {}
    THEN [batches |-> bs, chunk_auths |-> ca, ret |-> total_cleaned]
    ELSE LET batch_id == CHOOSE x \in todo : TRUE
             r == remove_batch(ca, batch_id)
         IN  cleanup_loop([b \in DOMAIN bs \ {batch_id} |-> bs[b]],
                          r.chunk_auths, todo \ {batch_id},
                          total_cleaned + r.ret)

cleanup_expired(bs, ca, now) ==
    cleanup_loop(bs, ca, expired_batches(bs, now), 0)

\* impl Reserved for PostageAuthorizer: the sum of max_stamps over the values
\* of the map.  reserved_chunks_distinct sums each distinct max_stamps once.
RECURSIVE sum_max_stamps(_, _)
sum_max_stamps(bs, ids) ==
    IF ids = {} THEN 0
    ELSE LET id == CHOOSE x \in ids : TRUE
         IN  max_stamps(bs[id]) + sum_max_stamps(bs, ids \ {id})

RECURSIVE sum_set(_)
sum_set(S) ==
    IF S = {} THEN 0
    ELSE LET n == CHOOSE x \in S : TRUE IN n + sum_set(S \ {n})

reserved_chunks_distinct(bs) ==
    sum_set({max_stamps(bs[id]) : id \in DOMAIN bs})

reserved_chunks(bs) == sum_max_stamps(bs, DOMAIN bs)

\* u64 subtraction.  When the count exceeds the reservation the call panics
\* (overflow checks on) or returns 2^64 + reserved - count (overflow checks
\* off); -1 stands for both outcomes, neither of which is the difference.
available_chunks(bs, ca) ==
    IF reserved_chunks(bs) >= authorized_chunk_count(ca)
    THEN reserved_chunks(bs) - authorized_chunk_count(ca)
    ELSE -1

\* Reserved::can_authorize, the trait's default method
can_authorize(bs, ca) == available_chunks(bs, ca) > 0

\* ----------------------------------------------------------------- state
Init ==
    /\ batches = << >>
    /\ chunk_auths = new_chunk_auths
    /\ last = [op |-> "new"]
    /\ pat = [state |-> "none"]
    /\ landed = << >>
    /\ builder = [stage |-> "none"]
    /\ body = [state |-> "none"]
    /\ soc = [state |-> "none"]

AddBatch ==
    \E id \in BatchIds, depth \in Depths, expires_at \in Timestamps,
       amount_per_chunk \in Amounts, immutable \in Immutables :
        LET r == add_batch(batches, id, depth, expires_at,
                           amount_per_chunk, immutable)
        IN  /\ batches' = r.batches
            /\ UNCHANGED chunk_auths
            /\ last' = [op |-> "add_batch", id |-> id, result |-> r.result]
            /\ UNCHANGED <<pat, landed, builder, body, soc>>

\* validate takes &self: it computes its verdict and changes nothing
Validate ==
    \E chunk \in ChunkAddresses, batch_id \in BatchIds,
       stamp_index \in StampIndices, timestamp \in Timestamps,
       signature_ok \in BOOLEAN :
        LET proof == [batch_id |-> batch_id, stamp_index |-> stamp_index,
                      timestamp |-> timestamp, signature_ok |-> signature_ok]
        IN  /\ UNCHANGED <<batches, chunk_auths>>
            /\ last' = [op |-> "validate", chunk |-> chunk,
                        batch_id |-> batch_id, stamp_index |-> stamp_index,
                        timestamp |-> timestamp,
                        result |-> validate(batches, chunk, proof)]
            /\ UNCHANGED <<pat, landed, builder, body, soc>>

CleanupExpired ==
    \E now \in Timestamps :
        LET r == cleanup_expired(batches, chunk_auths, now)
            again == last.op = "cleanup_expired" /\ last.now = now
        IN  /\ batches' = r.batches
            /\ chunk_auths' = r.chunk_auths
            /\ last' = [op |-> "cleanup_expired", now |-> now, ret |-> r.ret,
                        removed |-> expired_batches(batches, now),
                        \* what the call before returned, when it was the
                        \* same cleanup_expired(now); -1 otherwise
                        prior_ret |-> IF again THEN last.ret ELSE -1]
            /\ UNCHANGED <<pat, landed, builder, body, soc>>

\* The recording primitives of the module, BatchInfo::use_stamp followed by
\* ChunkAuthorizations::add.  No function under src/ calls them (validate
\* does not), so this step is not part of Next; NextRec adds it so that
\* cleanup_expired is exercised on populated maps.  The false branch of
\* use_stamp changes nothing and is left out.
RecordStamp ==
    /\ chunk_auths.total_count < MaxAuth
    /\ \E id \in DOMAIN batches, index \in StampIndices,
          chunk \in ChunkAddresses :
        LET u == use_stamp(batches[id], index)
        IN  /\ u.ret
            /\ batches' = [batches EXCEPT ![id] = u.info]
            /\ chunk_auths' = add(chunk_auths, chunk, id, index)
            /\ last' = [op |-> "record"]
            /\ UNCHANGED <<pat, landed, builder, body, soc>>

Next == AddBatch \/ Validate \/ CleanupExpired

Spec == Init /\ [][Next]_vars

NextRec == AddBatch \/ RecordStamp \/ CleanupExpired

SpecRec == Init /\ [][NextRec]_vars

\* ------------------------------------------------------------------- Pat
MaxLanded == 4         \* cap on landed[x] in the guard of PatInc

\* the batches Pat::new is given: depth >= bucket_depth >= 1, so that the
\* shifts in bucket_upper_bound and get_x are defined
PatBatches ==
    {[id |-> 1, depth |-> d, bucket_depth |-> b, immutable |-> i,
      block_created |-> None] :
        d \in 1..3, b \in 1..2, i \in BOOLEAN} \ 
    {[id |-> 1, depth |-> d, bucket_depth |-> b, immutable |-> i,
      block_created |-> None] :
        d \in {1}, b \in {2}, i \in BOOLEAN}

\* the wallet Pat::new is given
PatSigner == 7

\* the first four bytes of the chunk addresses presented to the accountant
PatAddresses ==
    {<<0, 0, 0, 0>>, <<0, 0, 0, 192>>, <<64, 0, 0, 1>>,
     <<128, 0, 0, 0>>, <<255, 255, 255, 255>>}

\* u32::from_be_bytes(address[0..4]) >> (32 - bucket_depth).  The u32 is
\* hi * 2^16 + lo; the shift is taken on the two halves so that no value
\* leaves the integers TLC has.
get_x(address, bucket_depth) ==
    LET hi == address[1] * 256 + address[2]
        lo == address[3] * 256 + address[4]
    IN  IF bucket_depth <= 16
        THEN hi \div (2 ^ (16 - bucket_depth))
        ELSE hi * (2 ^ (bucket_depth - 16)) + lo \div (2 ^ (32 - bucket_depth))

bucket_upper_bound(p) == 2 ^ (p.batch_depth - p.batch_bucket_depth)

\* Pat::new; buckets is the Vec, indexed from 0.  stamping is no field of
\* the code: it holds the slot of a stamp() call that is suspended in its
\* signing call, and is None otherwise.
pat_new(batch, batch_amount, expired, signer) ==
    [state |-> "live",
     batch_id |-> batch.id,
     batch_amount |-> batch_amount,
     batch_depth |-> batch.depth,
     batch_bucket_depth |-> batch.bucket_depth,
     buckets |-> [x \in 0..(2 ^ batch.bucket_depth - 1) |-> 0],
     max_bucket_depth |-> 0,
     block_created |-> batch.block_created,
     immutable |-> batch.immutable,
     expired |-> expired,
     signer |-> Some(signer),
     stamping |-> None]

\* Pat::inc: the result, the pair (x, y) of an Ok, and the Pat it leaves
inc_full_above(p, address) ==
    LET x == get_x(address, p.batch_bucket_depth)
        upper_bound == bucket_upper_bound(p)
        idx == p.buckets[x]
    IN  IF x \notin DOMAIN p.buckets
        THEN [result |-> "panic", pat |-> p]
        ELSE IF idx > upper_bound
        THEN IF p.immutable
             THEN [result |-> "BucketFull", pat |-> p]
             ELSE [result |-> "Ok", x |-> x, y |-> idx,
                   pat |-> [p EXCEPT !.buckets[x] = 0]]
        ELSE [result |-> "Ok", x |-> x, y |-> idx,
              pat |-> [p EXCEPT !.buckets[x] = idx + 1,
                                !.max_bucket_depth =
                                    IF idx + 1 > @ THEN idx + 1 ELSE @]]

inc_counts_every_other(p, address) ==
    LET x == get_x(address, p.batch_bucket_depth)
        upper_bound == bucket_upper_bound(p)
        idx == p.buckets[x]
    IN  IF x \notin DOMAIN p.buckets
        THEN [result |-> "panic", pat |-> p]
        ELSE IF idx = upper_bound
        THEN IF p.immutable
             THEN [result |-> "BucketFull", pat |-> p]
             ELSE [result |-> "Ok", x |-> x, y |-> idx,
                   pat |-> [p EXCEPT !.buckets[x] = 0]]
        ELSE [result |-> "Ok", x |-> x, y |-> idx,
              pat |-> [p EXCEPT !.buckets[x] =
                                    IF p.max_bucket_depth > idx
                                    THEN idx ELSE idx + 1,
                                !.max_bucket_depth =
                                    IF idx + 1 > @ THEN idx + 1 ELSE @]]

inc(p, address) ==
    LET x == get_x(address, p.batch_bucket_depth)
        upper_bound == bucket_upper_bound(p)
        idx == p.buckets[x]
    IN  IF x \notin DOMAIN p.buckets
        THEN [result |-> "panic", pat |-> p]   \* index out of bounds
        ELSE IF idx = upper_bound
        THEN IF p.immutable
             THEN [result |-> "BucketFull", pat |-> p]
             ELSE [result |-> "Ok", x |-> x, y |-> idx,
                   pat |-> [p EXCEPT !.buckets[x] = 0]]
        ELSE [result |-> "Ok", x |-> x, y |-> idx,
              pat |-> [p EXCEPT !.buckets[x] = idx + 1,
                                !.max_bucket_depth =
                                    IF idx + 1 > @ THEN idx + 1 ELSE @]]

PatNew ==
    /\ pat.state = "none"
    /\ \E batch \in PatBatches :
        /\ pat' = pat_new(batch, 0, FALSE, PatSigner)
        /\ landed' = [x \in 0..(2 ^ batch.bucket_depth - 1) |-> 0]
        /\ last' = [op |-> "pat_new"]
    /\ UNCHANGED <<batches, chunk_auths, builder, body, soc>>

PatInc ==
    /\ pat.state = "live"
    /\ pat.stamping = None
    /\ \E address \in PatAddresses :
        LET r == inc(pat, address)
            x == get_x(address, pat.batch_bucket_depth)
        IN  /\ x \in DOMAIN landed => landed[x] < MaxLanded
            /\ pat' = r.pat
            /\ landed' = IF r.result = "Ok"
                         THEN [landed EXCEPT ![x] = @ + 1] ELSE landed
            /\ last' = IF r.result = "Ok"
                       THEN [op |-> "inc", address |-> address,
                             result |-> "Ok", x |-> r.x, y |-> r.y]
                       ELSE [op |-> "inc", address |-> address,
                             result |-> r.result]
    /\ UNCHANGED <<batches, chunk_auths, builder, body, soc>>

PatNext == PatNew \/ PatInc

PatSpec == Init /\ [][PatNext]_vars

\* Pat::stamp up to its signing call: the slot from inc, the timestamp and
\* the signer.  Ok stands for the call suspended in Stamp::new with the slot
\* it holds; every other result ends the call.
stamp_begin_counts_when_full(p, address, timestamp) ==
    LET r == inc(p, address)
    IN  IF r.result # "Ok"
        THEN [result |-> r.result,
              pat |-> [r.pat EXCEPT !.max_bucket_depth = @ + 1]]
        ELSE IF r.pat.signer = None
        THEN [result |-> "panic", pat |-> r.pat]
        ELSE [result |-> "Ok",
              pat |-> [r.pat EXCEPT
                         !.stamping = Some([address |-> address, x |-> r.x,
                                            y |-> r.y,
                                            timestamp |-> timestamp])]]

stamp_begin(p, address, timestamp) ==
    LET r == inc(p, address)
    IN  IF r.result # "Ok" THEN [result |-> r.result, pat |-> r.pat]
        ELSE IF r.pat.signer = None
        THEN [result |-> "panic", pat |-> r.pat]   \* "Signer is not set"
        ELSE [result |-> "Ok",
              pat |-> [r.pat EXCEPT
                         !.stamping = Some([address |-> address, x |-> r.x,
                                            y |-> r.y,
                                            timestamp |-> timestamp])]]

\* the rest of Pat::stamp: the signer signs the digest Stamp::new hands it
\* and the stamp goes onto the chunk
stamp_finish(p) ==
    LET slot == p.stamping[1]
    IN  [result |-> "Ok",
         stamp |-> [batch_id |-> p.batch_id, x |-> slot.x, y |-> slot.y,
                    timestamp |-> slot.timestamp, signer |-> p.signer[1]],
         pat |-> [p EXCEPT !.stamping = None]]

StampTimes == {1}

PatStampBegin ==
    /\ pat.state = "live"
    /\ pat.stamping = None
    /\ \E address \in PatAddresses, timestamp \in StampTimes :
        LET r == stamp_begin(pat, address, timestamp)
            x == get_x(address, pat.batch_bucket_depth)
        IN  /\ x \in DOMAIN landed => landed[x] < MaxLanded
            /\ pat' = r.pat
            /\ landed' = IF inc(pat, address).result = "Ok"
                         THEN [landed EXCEPT ![x] = @ + 1] ELSE landed
            /\ last' = [op |-> "stamp", address |-> address,
                        result |-> IF r.result = "Ok" THEN "signing"
                                   ELSE r.result,
                        signed |-> FALSE]
    /\ UNCHANGED <<batches, chunk_auths, builder, body, soc>>

PatStampSign ==
    /\ pat.state = "live"
    /\ pat.stamping # None
    /\ LET r == stamp_finish(pat)
       IN  /\ pat' = r.pat
           /\ last' = [op |-> "stamp", address |-> pat.stamping[1].address,
                       result |-> "Ok", signed |-> TRUE, stamp |-> r.stamp]
    /\ UNCHANGED <<batches, chunk_auths, landed, builder, body, soc>>

PatStampNext == PatNew \/ PatStampBegin \/ PatStampSign

PatStampSpec == Init /\ [][PatStampNext]_vars

\* the batch records a Store may hold
StoreBatches ==
    {[id |-> 1, depth |-> 2, bucket_depth |-> 1, immutable |-> TRUE,
      block_created |-> Some(5)],
     [id |-> 1, depth |-> 3, bucket_depth |-> 2, immutable |-> FALSE,
      block_created |-> None]}

\* the stores rehydrate is given: empty, holding a record for batch id 1,
\* or holding a record for another batch id only
Stores ==
    {<< >>} \cup {(1 :> b) : b \in StoreBatches}
            \cup {(2 :> [id |-> 2, depth |-> 2, bucket_depth |-> 1,
                         immutable |-> TRUE, block_created |-> Some(5)])}

\* Pat::rehydrate
rehydrate_resets_utilization(p, store, signer) ==
    IF p.batch_id \notin DOMAIN store
    THEN [result |-> "BatchNotFound", pat |-> p]
    ELSE LET batch == store[p.batch_id]
         IN  [result |-> "Ok",
              pat |-> [p EXCEPT !.batch_depth = batch.depth,
                                !.batch_bucket_depth = batch.bucket_depth,
                                !.block_created = batch.block_created,
                                !.immutable = batch.immutable,
                                !.max_bucket_depth = 0]]

rehydrate(p, store, signer) ==
    IF p.batch_id \notin DOMAIN store
    THEN [result |-> "BatchNotFound", pat |-> p]
    ELSE LET batch == store[p.batch_id]
         IN  [result |-> "Ok",
              pat |-> [p EXCEPT !.batch_depth = batch.depth,
                                !.batch_bucket_depth = batch.bucket_depth,
                                !.block_created = batch.block_created,
                                !.immutable = batch.immutable]]

PatRehydrate ==
    /\ pat.state = "live"
    /\ pat.stamping = None
    /\ \E store \in Stores :
        LET r == rehydrate(pat, store, PatSigner)
        IN  /\ pat' = r.pat
            /\ last' = [op |-> "rehydrate", store |-> store,
                        result |-> r.result]
    /\ UNCHANGED <<batches, chunk_auths, landed, builder, body, soc>>

PatStoreNext == PatNew \/ PatInc \/ PatRehydrate

PatStoreSpec == Init /\ [][PatStoreNext]_vars

\* Deserialize for Pat (serde derive): the fields come from the document,
\* except signer, which is skip_deserializing and comes out as None.  The
\* document here is one that carries the accountant's own field values.
deserialize(doc) == [doc EXCEPT !.signer = None]

\* the accountant is written out and read back, as over a restart
PatDeserialize ==
    /\ pat.state = "live"
    /\ pat.stamping = None
    /\ pat.signer # None
    /\ pat' = deserialize(pat)
    /\ last' = [op |-> "deserialize"]
    /\ UNCHANGED <<batches, chunk_auths, landed, builder, body, soc>>

PatRestartNext ==
    \/ PatNew \/ PatDeserialize \/ PatRehydrate
    \/ PatStampBegin \/ PatStampSign

PatRestartSpec == Init /\ [][PatRestartNext]_vars

\* ---------------------------------------------------------- BatchBuilder
MIN_BUCKET_DEPTH == 16
\* nectar_primitives_traits::CHUNK_SIZE, the chunk size in bytes
CHUNK_SIZE == 4096
IMMUTABLE_DEFAULT == FALSE

\* the arguments the builder's methods are called with
BuilderIds == {1}
BuilderSigners == {7}              \* the signer's address
BuilderValues == {100}
BuilderSizes == {0, 4096, 1048576}
BuilderBucketDepths == {15, 16, 17}
BuilderPrices == {10}
Durations ==
    {[kind |-> "Blocks", blocks |-> 0], [kind |-> "Blocks", blocks |-> 2]}
    \cup {[kind |-> "Time", secs |-> 3600, block_time |-> 15],
          [kind |-> "Time", secs |-> 10, block_time |-> 15],
          [kind |-> "Time", secs |-> 5, block_time |-> 0]}
\* the depths BuilderWideSpec lets auto_size store (u8 values)
WideDepths == {0, 15, 16, 17}

\* BatchConfig::default
default_config ==
    [id |-> None, value |-> None, owner |-> None, depth |-> None,
     bucket_depth |-> None, immutable |-> None]

\* Batch::chunks and Batch::cost
chunks(depth) == 2 ^ depth

cost(depth, price) == price * chunks(depth)

\* (chunks as f64).log2().ceil() as u8: log2(0) is -inf, which the cast
\* saturates to 0; otherwise the least k with 2^k >= n
RECURSIVE ceil_log2_from(_, _)
ceil_log2_from(n, k) == IF 2 ^ k >= n THEN k ELSE ceil_log2_from(n, k + 1)

log2_ceil_as_u8(n) == IF n = 0 THEN 0 ELSE ceil_log2_from(n, 0)

\* Batch::depth_for_size: (size / CHUNK_SIZE).min(1)
depth_for_size(size) ==
    LET q == size \div CHUNK_SIZE
        n == IF q < 1 THEN q ELSE 1
    IN  log2_ceil_as_u8(n)

max_u8(a, b) == IF a >= b THEN a ELSE b

\* BatchConfig::build
build_requires_immutable(config) ==
    IF config.id = None THEN [result |-> "MissingField", field |-> "id"]
    ELSE IF config.value = None
         THEN [result |-> "MissingField", field |-> "value"]
    ELSE IF config.owner = None
         THEN [result |-> "MissingField", field |-> "owner"]
    ELSE IF config.depth = None
         THEN [result |-> "MissingField", field |-> "depth"]
    ELSE IF config.immutable = None
         THEN [result |-> "MissingField", field |-> "immutable"]
    ELSE LET depth == config.depth[1]
             bucket_depth == IF config.bucket_depth = None
                             THEN max_u8(depth, MIN_BUCKET_DEPTH)
                             ELSE config.bucket_depth[1]
         IN  IF bucket_depth > depth
             THEN [result |-> "InvalidBucketDepth", arg |-> bucket_depth]
             ELSE [result |-> "Ok",
                   batch |-> [id |-> config.id[1], value |-> config.value[1],
                              owner |-> config.owner[1], depth |-> depth,
                              bucket_depth |-> bucket_depth,
                              immutable |-> config.immutable[1]]]

build_skips_depth_check(config) ==
    IF config.id = None THEN [result |-> "MissingField", field |-> "id"]
    ELSE IF config.value = None
         THEN [result |-> "MissingField", field |-> "value"]
    ELSE IF config.owner = None
         THEN [result |-> "MissingField", field |-> "owner"]
    ELSE IF config.depth = None
         THEN [result |-> "MissingField", field |-> "depth"]
    ELSE LET depth == config.depth[1]
             bucket_depth == IF config.bucket_depth = None
                             THEN max_u8(depth, MIN_BUCKET_DEPTH)
                             ELSE config.bucket_depth[1]
             immutable == IF config.immutable = None
                          THEN IMMUTABLE_DEFAULT ELSE config.immutable[1]
         IN  [result |-> "Ok",
              batch |-> [id |-> config.id[1], value |-> config.value[1],
                         owner |-> config.owner[1], depth |-> depth,
                         bucket_depth |-> bucket_depth,
                         immutable |-> immutable]]

build(config) ==
    IF config.id = None THEN [result |-> "MissingField", field |-> "id"]
    ELSE IF config.value = None
         THEN [result |-> "MissingField", field |-> "value"]
    ELSE IF config.owner = None
         THEN [result |-> "MissingField", field |-> "owner"]
    ELSE IF config.depth = None
         THEN [result |-> "MissingField", field |-> "depth"]
    ELSE LET depth == config.depth[1]
             bucket_depth == IF config.bucket_depth = None
                             THEN max_u8(depth, MIN_BUCKET_DEPTH)
                             ELSE config.bucket_depth[1]
             immutable == IF config.immutable = None
                          THEN IMMUTABLE_DEFAULT ELSE config.immutable[1]
         IN  IF bucket_depth > depth
             THEN [result |-> "InvalidBucketDepth", arg |-> bucket_depth]
             ELSE [result |-> "Ok",
                   batch |-> [id |-> config.id[1], value |-> config.value[1],
                              owner |-> config.owner[1], depth |-> depth,
                              bucket_depth |-> bucket_depth,
                              immutable |-> immutable]]

\* BatchBuilder::with_bucket_depth
with_bucket_depth_unchecked(config, bucket_depth) ==
    [result |-> "Ok",
     config |-> [config EXCEPT !.bucket_depth = Some(bucket_depth)]]

with_bucket_depth(config, bucket_depth) ==
    IF bucket_depth < MIN_BUCKET_DEPTH
    THEN [result |-> "InvalidBucketDepth", arg |-> bucket_depth]
    ELSE [result |-> "Ok",
          config |-> [config EXCEPT !.bucket_depth = Some(bucket_depth)]]

\* BatchBuilder<WithSigner>::auto_size with the value of
\* Batch::depth_for_size(size_bytes) passed in as depth
auto_size_with(config, size_bytes, depth) ==
    IF size_bytes = 0 THEN [result |-> "SizeTooSmall"]
    ELSE [result |-> "Ok",
          config |-> [config EXCEPT
                        !.depth = Some(depth),
                        !.bucket_depth =
                            Some(max_u8(depth, MIN_BUCKET_DEPTH))]]

auto_size(config, size_bytes) ==
    auto_size_with(config, size_bytes, depth_for_size(size_bytes))

\* Duration::to_blocks
to_blocks(duration) ==
    IF duration.kind = "Blocks"
    THEN [result |-> "Ok", blocks |-> duration.blocks]
    ELSE IF duration.block_time = 0
         THEN [result |-> "BlockTimeZero"]
         ELSE [result |-> "Ok",
               blocks |-> duration.secs \div duration.block_time]

\* BatchBuilder<WithSize>::auto_value
auto_value(config, price, duration) ==
    LET b == to_blocks(duration)
    IN  IF b.result # "Ok" THEN [result |-> b.result]
        ELSE IF b.blocks = 0 THEN [result |-> "DurationInBlocksZero"]
        ELSE IF config.depth = None
             THEN [result |-> "InvalidDepth", arg |-> 0]
        ELSE [result |-> "Ok",
              config |-> [config EXCEPT
                            !.value = Some(cost(config.depth[1], price)
                                             * b.blocks)]]

\* the methods that exist on BatchBuilder<S> for each type-state S: the impl
\* blocks of batch.rs.  A call of any other method does not compile.
Stages == {"Initial", "WithSigner", "WithSize", "WithValue"}

accepts_value_on_initial(stage, method) ==
    \/ stage \in Stages
         /\ method \in {"with_id", "with_immutable", "with_bucket_depth"}
    \/ stage = "Initial" /\ method \in {"with_signer", "manual_value"}
    \/ stage = "WithSigner" /\ method \in {"auto_size", "manual_value"}
    \/ stage = "WithSize" /\ method \in {"auto_value", "manual_value"}
    \/ stage = "WithValue" /\ method = "build"

accepts(stage, method) ==
    \/ stage \in Stages
         /\ method \in {"with_id", "with_immutable", "with_bucket_depth"}
    \/ stage = "Initial" /\ method = "with_signer"
    \/ stage = "WithSigner" /\ method \in {"auto_size", "manual_value"}
    \/ stage = "WithSize" /\ method \in {"auto_value", "manual_value"}
    \/ stage = "WithValue" /\ method = "build"

\* The builder after a call.  Every method takes self by value: an Ok hands
\* the builder on in the stage given, an Err (and build) consumes it.  The
\* config a consumed builder held and the set of methods called so far are
\* kept for the properties.
handed_on(stage, config, method) ==
    [stage |-> stage, config |-> config,
     called |-> builder.called \cup {method}]

consumed(method) ==
    [stage |-> "consumed", config |-> builder.config,
     called |-> builder.called \cup {method}]

BuilderOthersUnchanged ==
    UNCHANGED <<batches, chunk_auths, pat, landed, body, soc>>

BuilderNew ==
    /\ builder.stage = "none"
    /\ builder' = [stage |-> "Initial", config |-> default_config,
                   called |-> {}]
    /\ last' = [op |-> "builder_new"]
    /\ BuilderOthersUnchanged

WithId ==
    /\ accepts(builder.stage, "with_id")
    /\ \E id \in BuilderIds :
        /\ builder' = handed_on(builder.stage,
                                [builder.config EXCEPT !.id = Some(id)],
                                "with_id")
        /\ last' = [op |-> "with_id", result |-> "Ok"]
    /\ BuilderOthersUnchanged

WithImmutable ==
    /\ accepts(builder.stage, "with_immutable")
    /\ \E immutable \in BOOLEAN :
        /\ builder' = handed_on(builder.stage,
                                [builder.config EXCEPT
                                   !.immutable = Some(immutable)],
                                "with_immutable")
        /\ last' = [op |-> "with_immutable", result |-> "Ok"]
    /\ BuilderOthersUnchanged

WithBucketDepth ==
    /\ accepts(builder.stage, "with_bucket_depth")
    /\ \E bucket_depth \in BuilderBucketDepths :
        LET r == with_bucket_depth(builder.config, bucket_depth)
        IN  /\ builder' = IF r.result = "Ok"
                          THEN handed_on(builder.stage, r.config,
                                         "with_bucket_depth")
                          ELSE consumed("with_bucket_depth")
            /\ last' = [op |-> "with_bucket_depth", arg |-> bucket_depth,
                        result |-> r.result]
    /\ BuilderOthersUnchanged

WithSigner ==
    /\ accepts(builder.stage, "with_signer")
    /\ \E signer \in BuilderSigners :
        /\ builder' = handed_on("WithSigner",
                                [builder.config EXCEPT !.owner = Some(signer)],
                                "with_signer")
        /\ last' = [op |-> "with_signer", result |-> "Ok"]
    /\ BuilderOthersUnchanged

AutoSize ==
    /\ accepts(builder.stage, "auto_size")
    /\ \E size_bytes \in BuilderSizes :
        LET r == auto_size(builder.config, size_bytes)
        IN  /\ builder' = IF r.result = "Ok"
                          THEN handed_on("WithSize", r.config, "auto_size")
                          ELSE consumed("auto_size")
            /\ last' = [op |-> "auto_size", arg |-> size_bytes,
                        result |-> r.result]
    /\ BuilderOthersUnchanged

\* auto_size with the result of depth_for_size left open: any of WideDepths
AutoSizeAnyDepth ==
    /\ accepts(builder.stage, "auto_size")
    /\ \E size_bytes \in BuilderSizes, depth \in WideDepths :
        LET r == auto_size_with(builder.config, size_bytes, depth)
        IN  /\ builder' = IF r.result = "Ok"
                          THEN handed_on("WithSize", r.config, "auto_size")
                          ELSE consumed("auto_size")
            /\ last' = [op |-> "auto_size", arg |-> size_bytes,
                        result |-> r.result]
    /\ BuilderOthersUnchanged

ManualValue ==
    /\ accepts(builder.stage, "manual_value")
    /\ \E value \in BuilderValues :
        /\ builder' = handed_on("WithValue",
                                [builder.config EXCEPT !.value = Some(value)],
                                "manual_value")
        /\ last' = [op |-> "manual_value", result |-> "Ok"]
    /\ BuilderOthersUnchanged

AutoValue ==
    /\ accepts(builder.stage, "auto_value")
    /\ \E price \in BuilderPrices, duration \in Durations :
        LET r == auto_value(builder.config, price, duration)
        IN  /\ builder' = IF r.result = "Ok"
                          THEN handed_on("WithValue", r.config, "auto_value")
                          ELSE consumed("auto_value")
            /\ last' = [op |-> "auto_value", result |-> r.result]
    /\ BuilderOthersUnchanged

Build ==
    /\ accepts(builder.stage, "build")
    /\ LET r == build(builder.config)
       IN  /\ builder' = consumed("build")
           /\ last' = [op |-> "build", out |-> r, result |-> r.result]
    /\ BuilderOthersUnchanged

BuilderNext ==
    \/ BuilderNew \/ WithId \/ WithImmutable \/ WithBucketDepth
    \/ WithSigner \/ AutoSize \/ ManualValue \/ AutoValue \/ Build

BuilderSpec == Init /\ [][BuilderNext]_vars

\* BuilderSpec with the depth that auto_size stores left open; every
\* behaviour of BuilderSpec is one of BuilderWideSpec
BuilderWideNext ==
    \/ BuilderNew \/ WithId \/ WithImmutable \/ WithBucketDepth
    \/ WithSigner \/ AutoSizeAnyDepth \/ ManualValue \/ AutoValue \/ Build

BuilderWideSpec == Init /\ [][BuilderWideNext]_vars

\* --------------------------------------------------------------- BMTBody
MaxThreads == 2

Threads == 1..MaxThreads

\* a payload is its length and a number standing for its content
Payloads ==
    {[len |-> 0, content |-> 0], [len |-> 3, content |-> 1],
     [len |-> 3, content |-> 2], [len |-> CHUNK_SIZE, content |-> 0],
     [len |-> CHUNK_SIZE + 1, content |-> 0]}
BodySpans == {42}

\* OnceLock::new: nothing stored, initialisation not begun
once_lock_new == [once |-> "incomplete", value |-> << >>]

\* BMTBody::new_unchecked
new_unchecked(span, data) ==
    [state |-> "built", span |-> span, data |-> data,
     cached_hash |-> once_lock_new,
     pc |-> [t \in Threads |-> "idle"],
     ret |-> [t \in Threads |-> None],
     assigned |-> 0]

\* BMTBodyBuilder::build; span and data are Options
bmt_build_rejects_full_chunk(span, data) ==
    IF data = None THEN [result |-> "MissingField", field |-> "data"]
    ELSE IF data[1].len >= CHUNK_SIZE
         THEN [result |-> "Size", size |-> data[1].len, limit |-> CHUNK_SIZE]
         ELSE [result |-> "Ok",
               body |-> new_unchecked(IF span = None THEN data[1].len
                                      ELSE span[1], data[1])]

bmt_build(span, data) ==
    IF data = None THEN [result |-> "MissingField", field |-> "data"]
    ELSE IF data[1].len > CHUNK_SIZE
         THEN [result |-> "Size", size |-> data[1].len, limit |-> CHUNK_SIZE]
         ELSE [result |-> "Ok",
               body |-> new_unchecked(IF span = None THEN data[1].len
                                      ELSE span[1], data[1])]

\* BMTBody::compute_hash: the BMT hasher's digest of span and data, a function
\* of the two whose halves are written one after the other
compute_hash(b) == <<<<"bmt", b.span>>, <<b.data.len, b.data.content>>>>

\* OnceLock::get_or_init runs the closure in the caller that finds the cell
\* incomplete; a caller that finds it running blocks until it is complete
may_init_while_running(cell) == cell.once # "complete"

may_init(cell) == cell.once = "incomplete"

BodyOthersUnchanged ==
    UNCHANGED <<batches, chunk_auths, pat, landed, builder, soc>>

BodyBuild ==
    /\ body.state = "none"
    /\ \E span \in {None} \cup {Some(sp) : sp \in BodySpans},
          data \in {None} \cup {Some(d) : d \in Payloads} :
        LET r == bmt_build(span, data)
        IN  /\ body' = IF r.result = "Ok" THEN r.body ELSE body
            /\ last' = [op |-> "bmt_build", span |-> span, data |-> data,
                        result |-> r.result]
    /\ BodyOthersUnchanged

\* hash(): the cell is complete, get_or_init returns the stored value
HashGet(t) ==
    /\ body.state = "built"
    /\ body.pc[t] \in {"idle", "done", "blocked"}
    /\ body.cached_hash.once = "complete"
    /\ body' = [body EXCEPT !.pc[t] = "done",
                            !.ret[t] = Some(body.cached_hash.value)]
    /\ last' = [op |-> "hash", thread |-> t, step |-> "get"]
    /\ BodyOthersUnchanged

\* hash(): this caller becomes the one that runs the closure
HashInit(t) ==
    /\ body.state = "built"
    /\ body.pc[t] \in {"idle", "done"}
    /\ may_init(body.cached_hash)
    /\ body' = [body EXCEPT !.pc[t] = "computed",
                            !.cached_hash.once = "running"]
    /\ last' = [op |-> "hash", thread |-> t, step |-> "init"]
    /\ BodyOthersUnchanged

\* hash(): another caller is running the closure, this one blocks in
\* get_or_init until the cell is complete
HashBlock(t) ==
    /\ body.state = "built"
    /\ body.pc[t] \in {"idle", "done"}
    /\ body.cached_hash.once = "running"
    /\ ~may_init(body.cached_hash)
    /\ body' = [body EXCEPT !.pc[t] = "blocked"]
    /\ last' = [op |-> "hash", thread |-> t, step |-> "block"]
    /\ BodyOthersUnchanged

\* the closure's value is moved into the cell: first half
HashWriteFirst(t) ==
    /\ body.state = "built"
    /\ body.pc[t] = "computed"
    /\ body' = [body EXCEPT !.pc[t] = "writing",
                            !.cached_hash.value = <<compute_hash(body)[1]>>]
    /\ last' = [op |-> "hash", thread |-> t, step |-> "write_first"]
    /\ BodyOthersUnchanged

\* second half; the cell becomes complete and the caller returns its value
HashWriteRest(t) ==
    /\ body.state = "built"
    /\ body.pc[t] = "writing"
    /\ LET value == Append(body.cached_hash.value, compute_hash(body)[2])
       IN  body' = [body EXCEPT !.pc[t] = "done",
                                !.cached_hash =
                                    [once |-> "complete", value |-> value],
                                !.ret[t] = Some(value),
                                !.assigned = @ + 1]
    /\ last' = [op |-> "hash", thread |-> t, step |-> "write_rest"]
    /\ BodyOthersUnchanged

BodyNext ==
    \/ BodyBuild
    \/ \E t \in Threads :
         \/ HashGet(t) \/ HashInit(t) \/ HashBlock(t)
         \/ HashWriteFirst(t) \/ HashWriteRest(t)

BodySpec == Init /\ [][BodyNext]_vars

\* ------------------------------------------------------ SingleOwnerChunk
SocIds == {1, 2}
SocSigners == {7, 8}               \* the signers' addresses
SocPayloads ==
    {[len |-> 3, content |-> 1], [len |-> 3, content |-> 2],
     [len |-> CHUNK_SIZE + 1, content |-> 0]}

\* Keccak256 of id and body hash (to_sign), as the digest a signature is over.
\* A digest is prefixed when it is the EIP-191 hash of that 32-byte message.
to_sign(id, b) == [prefixed |-> FALSE, id |-> id, body_hash |-> compute_hash(b)]

eip191_hash_message(msg) == [msg EXCEPT !.prefixed = TRUE]

\* Signer::sign_hash signs the digest as it is; Signer::sign_message signs
\* the EIP-191 hash of the message
sign_hash(signer, digest) ==
    [kind |-> "signature", signer |-> signer, digest |-> digest]

sign_message(signer, msg) == sign_hash(signer, eip191_hash_message(msg))

\* a well-formed signature from which no address can be recovered, and bytes
\* that are no signature at all
Unrecoverable == [kind |-> "unrecoverable"]
Malformed == [kind |-> "malformed"]

\* the address recovery yields for a digest the signature is not over: some
\* address that is no signer's
Stranger == 99

\* PrimitiveSignature::recover_address_from_prehash
recover_address_from_prehash(signature, digest) ==
    IF signature.kind # "signature" THEN [result |-> "Err"]
    ELSE IF signature.digest = digest
         THEN [result |-> "Ok", address |-> signature.signer]
         ELSE [result |-> "Ok", address |-> Stranger]

\* PrimitiveSignature::recover_address_from_msg: recovery for the EIP-191
\* hash of the message
recover_address_from_msg(signature, msg) ==
    recover_address_from_prehash(signature, eip191_hash_message(msg))

\* Chunk::address of a SingleOwnerChunk: Keccak256 of id and owner
soc_address(id, owner) == <<id, owner>>

chunk_address(chunk) == soc_address(chunk.id, chunk.owner)

\* the body of a chunk: BMTBody::new(data.len() as Span, data)
soc_body(data) == bmt_build(Some(data.len), Some(data))

\* Chunk::verify
verify_any_owner(chunk, addr) ==
    LET recovered == recover_address_from_msg(chunk.signature,
                                              to_sign(chunk.id, chunk.body))
    IN  IF recovered.result = "Ok"
        THEN addr = chunk_address(chunk)
        ELSE FALSE

verify(chunk, addr) ==
    LET recovered == recover_address_from_msg(chunk.signature,
                                              to_sign(chunk.id, chunk.body))
    IN  IF recovered.result = "Ok"
        THEN recovered.address = chunk.owner /\ addr = chunk_address(chunk)
        ELSE FALSE

\* SingleOwnerChunk::new
soc_new(id, data, signer) ==
    LET b == soc_body(data)
    IN  IF b.result # "Ok" THEN [result |-> "BMTBodyError"]
        ELSE [result |-> "Ok",
              chunk |-> [state |-> "chunk", id |-> id, owner |-> signer,
                         signature |-> sign_hash(signer, to_sign(id, b.body)),
                         body |-> b.body]]

\* SingleOwnerChunk::new_signed; the unwrap of a failed recovery panics
new_signed(addr, id, signature, data) ==
    LET b == soc_body(data)
    IN  IF b.result # "Ok" THEN [result |-> "BMTBodyError"]
        ELSE LET recovered ==
                    recover_address_from_msg(signature, to_sign(id, b.body))
             IN  IF recovered.result # "Ok" THEN [result |-> "panic"]
                 ELSE LET chunk == [state |-> "chunk", id |-> id,
                                    owner |-> recovered.address,
                                    signature |-> signature,
                                    body |-> b.body]
                      IN  IF chunk_address(chunk) = addr
                          THEN [result |-> "Ok", chunk |-> chunk]
                          ELSE [result |-> "ChunkMismatch"]

\* SingleOwnerChunk::from_slice on the bytes of an id, a signature and a body
\* (short: fewer bytes than id and signature take)
from_slice(value) ==
    IF value.short THEN [result |-> "InsufficientData"]
    ELSE IF value.signature.kind = "malformed"
         THEN [result |-> "SignatureError"]
    ELSE LET b == soc_body(value.data)
         IN  IF b.result # "Ok" THEN [result |-> "BMTBodyError"]
             ELSE LET recovered ==
                         recover_address_from_msg(value.signature,
                                                  to_sign(value.id, b.body))
                  IN  IF recovered.result # "Ok" THEN [result |-> "panic"]
                      ELSE [result |-> "Ok",
                            chunk |-> [state |-> "chunk", id |-> value.id,
                                       owner |-> recovered.address,
                                       signature |-> value.signature,
                                       body |-> b.body]]

\* the signatures handed to new_signed and found in the bytes of from_slice
SocSignatures(id, data) ==
    LET b == soc_body(data)
    IN  {Unrecoverable}
        \cup (IF b.result = "Ok"
              THEN {sign_hash(sg, to_sign(id, b.body)) : sg \in SocSigners}
                   \cup {sign_message(sg, to_sign(id, b.body)) :
                           sg \in SocSigners}
              ELSE {})

SocAddresses == {soc_address(id, o) : id \in SocIds,
                                     o \in SocSigners \cup {Stranger}}

SocOthersUnchanged ==
    UNCHANGED <<batches, chunk_auths, pat, landed, builder, body>>

SocNew ==
    /\ soc.state = "none"
    /\ \E id \in SocIds, data \in SocPayloads, signer \in SocSigners :
        LET r == soc_new(id, data, signer)
        IN  /\ soc' = IF r.result = "Ok" THEN r.chunk ELSE soc
            /\ last' = [op |-> "soc_new", result |-> r.result]
    /\ SocOthersUnchanged

SocNewSigned ==
    /\ soc.state = "none"
    /\ \E addr \in SocAddresses, id \in SocIds, data \in SocPayloads :
        \E signature \in SocSignatures(id, data) :
            LET r == new_signed(addr, id, signature, data)
            IN  /\ soc' = IF r.result = "Ok" THEN r.chunk ELSE soc
                /\ last' = [op |-> "new_signed", addr |-> addr,
                            signature |-> signature, data |-> data,
                            result |-> r.result]
    /\ SocOthersUnchanged

SocFromSlice ==
    /\ soc.state = "none"
    /\ \E id \in SocIds, data \in SocPayloads, short \in BOOLEAN :
        \E signature \in SocSignatures(id, data) \cup {Malformed} :
            LET r == from_slice([short |-> short, id |-> id,
                                 signature |-> signature, data |-> data])
            IN  /\ soc' = IF r.result = "Ok" THEN r.chunk ELSE soc
                /\ last' = [op |-> "from_slice", short |-> short,
                            signature |-> signature, data |-> data,
                            result |-> r.result]
    /\ SocOthersUnchanged

SocVerify ==
    /\ soc.state = "chunk"
    /\ \E addr \in SocAddresses :
        last' = [op |-> "verify", addr |-> addr, result |-> verify(soc, addr)]
    /\ UNCHANGED soc
    /\ SocOthersUnchanged

SocNext == SocNew \/ SocNewSigned \/ SocFromSlice \/ SocVerify

SocSpec == Init /\ [][SocNext]_vars

\* ------------------------------------------------------ depth_for_size
MaxSizeKiB == 127

\* the sizes in bytes depth_for_size is called with: the multiples of 1 KiB
Sizes == {k * 1024 : k \in 0..MaxSizeKiB}

DepthForSize ==
    /\ \E size \in Sizes :
        last' = [op |-> "depth_for_size", size |-> size,
                 result |-> depth_for_size(size)]
    /\ UNCHANGED <<batches, chunk_auths, pat, landed, builder, body, soc>>

SizeNext == DepthForSize

SizeSpec == Init /\ [][SizeNext]_vars

\* ---------------------------------------------------------------- claims
\* the (batch_id, stamp_index) pairs and the (chunk, batch_id, stamp_index)
\* entries that a ChunkAuthorizations value holds
recorded_pairs(ca) ==
    UNION {ca.authorizations[c] : c \in DOMAIN ca.authorizations}

recorded_entries(ca) ==
    UNION {{<<c, p[1], p[2]>> : p \in ca.authorizations[c]} :
             c \in DOMAIN ca.authorizations}

\* C1: when validate(chunk, proof) returns Ok, the chunk's address is recorded
\* in the chunk-authorization map under (proof.batch_id, proof.stamp_index)
\* and the stamp index is in the batch's used-stamp set.
C1_ValidateOkRecords ==
    (last.op = "validate" /\ last.result = "Ok") =>
        /\ last.chunk \in DOMAIN chunk_auths.authorizations
        /\ <<last.batch_id, last.stamp_index>>
               \in chunk_auths.authorizations[last.chunk]
        /\ last.stamp_index \in batches[last.batch_id].used_stamps

\* C2: replay protection.  Once validate has accepted a proof naming batch b
\* and stamp index i, a later validate naming the same b and i is rejected,
\* whatever chunk it carries.  Stated for the validate call that follows the
\* accepted one directly (b is then still registered); the claim names the
\* error "stamp already used", and the formula asks only that the call is not
\* accepted, which the claim implies.
C2_ReplayRejected ==
    [][(/\ last.op = "validate" /\ last.result = "Ok"
        /\ last'.op = "validate"
        /\ last'.batch_id = last.batch_id
        /\ last'.stamp_index = last.stamp_index)
       => last'.result # "Ok"]_vars

\* C3: authorized_chunk_count() equals the number of distinct
\* (batch_id, stamp_index) pairs recorded; an accepted validate carrying a
\* pair not yet recorded raises the count by exactly 1, and a rejected
\* validate leaves it unchanged.
C3_CountTracksAcceptedStamps ==
    [][/\ authorized_chunk_count(chunk_auths')
            = Cardinality(recorded_pairs(chunk_auths'))
       /\ last'.op = "validate" =>
            IF last'.result = "Ok"
            THEN <<last'.batch_id, last'.stamp_index>>
                     \notin recorded_pairs(chunk_auths)
                 => authorized_chunk_count(chunk_auths')
                      = authorized_chunk_count(chunk_auths) + 1
            ELSE authorized_chunk_count(chunk_auths')
                   = authorized_chunk_count(chunk_auths)]_vars

\* C4: for a registered batch, validate returns Expired exactly when
\* batch.expires_at <= proof.timestamp, whatever cleanup_expired calls came
\* before (validate leaves batches as it found them, so the batch read here is
\* the one the call saw).
C4_ExpiredIffPastExpiry ==
    (last.op = "validate" /\ last.batch_id \in DOMAIN batches) =>
        (last.result = "Expired"
           <=> batches[last.batch_id].expires_at <= last.timestamp)

\* a proof timestamped exactly at expires_at of a registered batch was
\* rejected as Expired
C4_Witness ==
    /\ last.op = "validate"
    /\ last.batch_id \in DOMAIN batches
    /\ last.timestamp = batches[last.batch_id].expires_at
    /\ last.result = "Expired"

\* C5: add_batch with a registered id returns InvalidState and leaves batches
\* and the chunk authorizations unchanged; with an unregistered id it
\* registers the id with an empty used-stamp set and changes nothing else.
C5_AddBatchDuplicateLeavesState ==
    [][last'.op = "add_batch" =>
         IF last'.id \in DOMAIN batches
         THEN /\ last'.result = "InvalidState"
              /\ batches' = batches
              /\ chunk_auths' = chunk_auths
         ELSE /\ last'.result = "Ok"
              /\ DOMAIN batches' = DOMAIN batches \cup {last'.id}
              /\ batches'[last'.id].used_stamps = {}
              /\ \A b \in DOMAIN batches : batches'[b] = batches[b]
              /\ chunk_auths' = chunk_auths]_vars

\* a duplicate add_batch was refused for a batch that has used stamps
C5_Witness ==
    /\ last.op = "add_batch"
    /\ last.result = "InvalidState"
    /\ batches[last.id].used_stamps # {}
    /\ chunk_auths.total_count > 0

\* C6: cleanup_expired(now) removes exactly the batches with
\* expires_at <= now; every batch with expires_at > now stays registered with
\* unchanged fields and keeps all of its chunk authorizations.
C6_CleanupRemovesExactlyExpired ==
    [][last'.op = "cleanup_expired" =>
         /\ DOMAIN batches'
              = {b \in DOMAIN batches : batches[b].expires_at > last'.now}
         /\ \A b \in DOMAIN batches' : batches'[b] = batches[b]
         /\ \A e \in recorded_entries(chunk_auths) :
              e[2] \in DOMAIN batches'
                => e \in recorded_entries(chunk_auths')]_vars

\* a cleanup removed a batch while a batch holding authorizations stayed
C6_Witness ==
    /\ last.op = "cleanup_expired"
    /\ last.removed # {}
    /\ \E e \in recorded_entries(chunk_auths) : e[2] \in DOMAIN batches

\* C7: the number cleanup_expired returns is the number of authorization
\* entries it removed, authorized_chunk_count() before minus after, not the
\* number of batches removed.
C7_CleanupReturnsEntriesRemoved ==
    [][last'.op = "cleanup_expired" =>
         /\ last'.ret = authorized_chunk_count(chunk_auths)
                          - authorized_chunk_count(chunk_auths')
         /\ last'.ret = Cardinality(recorded_entries(chunk_auths)
                                      \ recorded_entries(chunk_auths'))
         /\ (\A e \in recorded_entries(chunk_auths) :
               e[2] \notin last'.removed) => last'.ret = 0]_vars

\* a cleanup removed one batch and returned 2, the entries that batch had
C7_Witness ==
    /\ last.op = "cleanup_expired"
    /\ Cardinality(last.removed) = 1
    /\ last.ret = 2

\* C8: a cleanup_expired(now) directly after a cleanup_expired with the same
\* now returns 0 and leaves batches and the chunk authorizations as they were.
C8_CleanupIdempotent ==
    [][(/\ last.op = "cleanup_expired"
        /\ last'.op = "cleanup_expired"
        /\ last'.now = last.now)
       => /\ last'.ret = 0
          /\ batches' = batches
          /\ chunk_auths' = chunk_auths]_vars

\* the second of two equal cleanups returned 0 after the first had removed
\* entries
C8_Witness ==
    /\ last.op = "cleanup_expired"
    /\ last.prior_ret > 0
    /\ last.ret = 0

\* C9 (as claimed): once cleanup_expired has removed batch id b, b is not
\* registered in a later state.  Stated for the first later state, the one
\* the call after the cleanup leaves.
C9_RemovedIsTerminal ==
    [][last.op = "cleanup_expired" =>
         \A b \in last.removed : b \notin DOMAIN batches']_vars

\* C9 (amended): cleanup_expired leaves the ids it removed unregistered, and
\* an unregistered id becomes registered only by a successful add_batch of
\* that id, which starts it with an empty used-stamp set; validate and
\* cleanup_expired register nothing.
C9_OnlyAddBatchRegisters ==
    [][/\ last'.op = "cleanup_expired" =>
            \A b \in last'.removed : b \notin DOMAIN batches'
       /\ \A b \in BatchIds :
            (b \notin DOMAIN batches /\ b \in DOMAIN batches') =>
                /\ last'.op = "add_batch"
                /\ last'.id = b
                /\ last'.result = "Ok"
                /\ batches'[b].used_stamps = {}]_vars

\* a cleanup removed a batch, which is now unregistered, and left another
C9_Witness ==
    /\ last.op = "cleanup_expired"
    /\ last.removed # {}
    /\ last.removed \cap DOMAIN batches = {}
    /\ batches # << >>

RECURSIVE chunks_by_depth(_, _)
chunks_by_depth(bs, ds) ==
    IF ds = {} THEN 0
    ELSE LET d == CHOOSE x \in ds : TRUE
         IN  (2 ^ d) * Cardinality({b \in DOMAIN bs : bs[b].depth = d})
               + chunks_by_depth(bs, ds \ {d})

\* C11: reserved_chunks() is the sum of 2^depth over the registered batches,
\* available_chunks() is reserved_chunks() minus authorized_chunk_count(), and
\* can_authorize() is true iff available_chunks() > 0.
C11_ReservedAvailable ==
    LET reserved == chunks_by_depth(batches, Depths)
        available == reserved - chunk_auths.total_count
    IN  /\ reserved_chunks(batches) = reserved
        /\ available_chunks(batches, chunk_auths) = available
        /\ can_authorize(batches, chunk_auths) <=> available > 0

\* two batches are registered, stamps are recorded and capacity is left
C11_Witness ==
    /\ Cardinality(DOMAIN batches) = 2
    /\ chunk_auths.total_count > 0
    /\ can_authorize(batches, chunk_auths)
    /\ available_chunks(batches, chunk_auths)
         < reserved_chunks(batches)

\* the bucket of an address: its top bucket_depth bits, which for the bucket
\* depths of PatBatches are the top bits of the first byte
top_bits(address, bucket_depth) == address[1] \div (2 ^ (8 - bucket_depth))

\* 2^(depth - bucket_depth) of the accountant's batch
slots_per_bucket == 2 ^ (pat.batch_depth - pat.batch_bucket_depth)

\* C12: on an immutable batch an assignment for bucket x fails with
\* BucketFull exactly when 2^(depth - bucket_depth) assignments have landed
\* in x before, so the bucket holds exactly that many and is full from then
\* on, while assignments to buckets that are not full succeed; a failed
\* assignment leaves the accountant as it was.
C12_ImmutableBucketFull ==
    [][(last'.op = "inc" /\ pat.state = "live" /\ pat.immutable) =>
         LET x == top_bits(last'.address, pat.batch_bucket_depth)
         IN  /\ last'.result = "BucketFull" <=> landed[x] >= slots_per_bucket
             /\ last'.result = "BucketFull" => pat' = pat
             /\ landed'[x] <= slots_per_bucket]_vars

\* an assignment succeeded on an immutable batch while another bucket was full
C12_Witness ==
    /\ last.op = "inc" /\ last.result = "Ok"
    /\ pat.immutable
    /\ \E z \in DOMAIN landed :
         z # last.x /\ landed[z] = slots_per_bucket

\* C13: on a mutable batch, after 2^(depth - bucket_depth) assignments have
\* landed in bucket x, the next assignment for x succeeds with sequence 0.
C13_MutableWrapsToZero ==
    [][(/\ last'.op = "inc" /\ pat.state = "live" /\ ~pat.immutable
        /\ landed[top_bits(last'.address, pat.batch_bucket_depth)]
             = slots_per_bucket)
       => (last'.result = "Ok" /\ last'.y = 0)]_vars

\* C14: every (x, y) that inc returns has 0 <= x < 2^bucket_depth and
\* 0 <= y < 2^(depth - bucket_depth), x being the top bucket_depth bits of
\* the chunk address.
C14_SlotInRange ==
    (last.op = "inc" /\ last.result = "Ok") =>
        /\ 0 <= last.x /\ last.x < 2 ^ pat.batch_bucket_depth
        /\ 0 <= last.y /\ last.y < slots_per_bucket
        /\ last.x = top_bits(last.address, pat.batch_bucket_depth)

\* the size steps and value steps of the builder
SizeValueSteps == {"auto_size", "manual_value", "auto_value"}

\* C15 as stated: whenever a size step or a value step is taken, the builder
\* it is taken on already holds both the batch id and the signer's address.
C15_IdAndSignerBeforeSizeValue ==
    [][last'.op \in SizeValueSteps /\ builder'.stage # builder.stage
         => builder.config.id # None /\ builder.config.owner # None]_vars

\* C15: whenever a size step or a value step is taken, the builder it is
\* taken on already holds the signer's address; with_id is accepted in every
\* stage, before and after those steps, and a build() without it fails with
\* MissingField("id").
C15_SignerBeforeSizeValue ==
    [][/\ last'.op \in SizeValueSteps /\ builder'.stage # builder.stage
            => builder.config.owner # None
       /\ builder.stage \in Stages => ENABLED WithId
       /\ last'.op = "build" /\ builder.config.id = None
            => last'.result = "MissingField" /\ last'.out.field = "id"]_vars

\* a value step was taken before the id was set: with_id is accepted on a
\* builder that already holds its value
C15_Witness ==
    /\ last.op = "with_id"
    /\ builder.stage = "WithValue"
    /\ builder.called = {"with_signer", "manual_value", "with_id"}

ConfigFields == {"id", "value", "owner", "depth", "bucket_depth", "immutable"}

C17_ManualValueChainBuilds ==
    /\ last.op = "build"
    /\ builder.called = {"with_signer", "with_id", "manual_value", "build"}
    => /\ last.result = "Ok"
       /\ last.out.batch.value = builder.config.value[1]

\* C18: the chain new -> with_signer -> with_id -> auto_size(size > 0) ->
\* auto_value(price, duration of at least one block) -> with_immutable(true)
\* -> build() returns a Batch whose immutable() is true.
C18_AutoChainBuildsImmutable ==
    /\ last.op = "build"
    /\ builder.called = {"with_signer", "with_id", "auto_size", "auto_value",
                         "with_immutable", "build"}
    /\ builder.config.immutable = Some(TRUE)
    => /\ last.result = "Ok"
       /\ last.out.batch.immutable = TRUE

\* C19: in every builder stage with_bucket_depth(b) with b < 16 fails at the
\* call with InvalidBucketDepth and hands no builder on; with b >= 16 it is
\* accepted, stores b and keeps the stage, also when b exceeds the depth; and
\* build() on a config that has its id and depth and a bucket depth set by
\* with_bucket_depth that exceeds the depth fails with InvalidBucketDepth.
C19_BucketDepthChecks ==
    [][/\ last'.op = "with_bucket_depth" /\ last'.arg < MIN_BUCKET_DEPTH
            => /\ last'.result = "InvalidBucketDepth"
               /\ builder'.stage = "consumed"
       /\ last'.op = "with_bucket_depth" /\ last'.arg >= MIN_BUCKET_DEPTH
            => /\ last'.result = "Ok"
               /\ builder'.stage = builder.stage
               /\ builder'.config.bucket_depth = Some(last'.arg)
       /\ builder.stage \in Stages => ENABLED WithBucketDepth
       /\ /\ last'.op = "build"
          /\ builder.config.id # None /\ builder.config.depth # None
          /\ builder.config.bucket_depth # None
          /\ builder.config.bucket_depth[1] > builder.config.depth[1]
          => /\ last'.result = "InvalidBucketDepth"
             /\ last'.out.arg = builder.config.bucket_depth[1]]_vars

\* with_bucket_depth(17) was accepted on a builder of depth 16 and build()
\* has failed with InvalidBucketDepth(17)
C19_Witness ==
    /\ last.op = "build"
    /\ "with_bucket_depth" \in builder.called
    /\ builder.config.depth = Some(16)
    /\ builder.config.bucket_depth = Some(17)
    /\ last.result = "InvalidBucketDepth"
    /\ last.out.arg = 17

C21_DepthForSizeIsCeilLog2 ==
    last.op = "depth_for_size" =>
        LET q == last.size \div CHUNK_SIZE
            n == IF q > 1 THEN q ELSE 1
        IN  /\ last.result = ceil_log2_from(n, 0)
            /\ 2 ^ last.result >= q
            /\ last.size = 0 => last.result = 0

\* C22: building a BMTBody from a span and a payload fails with a Size error
\* if and only if the payload is longer than 4096 bytes; a payload of exactly
\* 4096 bytes and the empty payload are accepted; on failure there is no body.
C22_BodySizeErrorIffTooLong ==
    last.op = "bmt_build" /\ last.data # None =>
        /\ last.result = "Size" <=> last.data[1].len > 4096
        /\ last.result = "Size" => body.state = "none"
        /\ last.data[1].len <= 4096 =>
             /\ last.result = "Ok"
             /\ body.state = "built"
             /\ body.data = last.data[1]

\* a payload of exactly 4096 bytes has been built into a body
C22_Witness ==
    /\ last.op = "bmt_build"
    /\ last.span # None
    /\ last.data # None
    /\ last.data[1].len = 4096
    /\ last.result = "Ok"
    /\ body.state = "built"

\* C24: with several threads calling hash() on one body, the cached address
\* is assigned at most once and never changes afterwards, every caller that
\* has returned holds the value of the uncached computation, and the value a
\* caller holds is never a partly written one.
C24_HashAssignedOnce ==
    body.state = "built" =>
        /\ body.assigned <= 1
        /\ body.assigned = 1 <=> body.cached_hash.once = "complete"
        /\ body.cached_hash.once = "complete"
             => body.cached_hash.value = compute_hash(body)
        /\ \A t \in Threads :
             /\ body.pc[t] = "done" => body.ret[t] = Some(compute_hash(body))
             /\ body.ret[t] # None => body.ret[t] = Some(compute_hash(body))

\* a thread called hash() while another was running the closure: the first
\* has stored the value and returned it, the second is about to return
C24_Witness ==
    /\ body.state = "built"
    /\ body.assigned = 1
    /\ \E t, u \in Threads :
        /\ t # u
        /\ body.pc[t] = "blocked"
        /\ body.pc[u] = "done"
        /\ body.ret[u] = Some(compute_hash(body))

\* the chunk's signature was made by its stored owner over hash(id || body
\* hash), signed as a digest or as an EIP-191 message
signed_by_owner(chunk) ==
    /\ chunk.signature.kind = "signature"
    /\ chunk.signature.signer = chunk.owner
    /\ chunk.signature.digest \in
         {to_sign(chunk.id, chunk.body),
          eip191_hash_message(to_sign(chunk.id, chunk.body))}

\* C23: verify(addr) returns true if and only if the signature over
\* hash(id || body-hash) recovers to the stored owner and addr equals
\* hash(id || owner); a chunk whose signature is not the stored owner's fails
\* verify even when addr equals hash(id || stored owner).
C23_VerifyIffOwnerSignedAndAddress ==
    last.op = "verify" =>
        /\ last.result = TRUE
             <=> signed_by_owner(soc) /\ last.addr = chunk_address(soc)
        /\ ~signed_by_owner(soc) => last.result = FALSE

\* C29: when no address can be recovered from the signature, new_signed and
\* from_slice (given enough bytes and a body of valid size) return an error
\* of the crypto kind: no panic, no chunk.
C29_FailedRecoveryIsCryptoError ==
    /\ last.op \in {"new_signed", "from_slice"}
    /\ last.signature = Unrecoverable
    /\ soc_body(last.data).result = "Ok"
    /\ last.op = "from_slice" => ~last.short
    => /\ last.result = "AlloySignerError"
       /\ soc.state = "none"

\* the proofs validate can be handed
Proofs ==
    [batch_id : BatchIds, stamp_index : StampIndices,
     timestamp : Timestamps, signature_ok : BOOLEAN]

\* C25: in every state of the authorizer, validate does not succeed for a
\* proof whose stamp_index is >= 2^depth of the registered batch it names,
\* and rejects it with "invalid stamp index" when the batch is unexpired and
\* the index is not used; every recorded stamp index is within [0, 2^depth).
C25_IndexOutOfRangeRejected ==
    /\ \A proof \in Proofs, chunk \in ChunkAddresses :
         /\ proof.batch_id \in DOMAIN batches
         /\ proof.stamp_index >= 2 ^ batches[proof.batch_id].depth
         => /\ validate(batches, chunk, proof) # "Ok"
            /\ /\ batches[proof.batch_id].expires_at > proof.timestamp
               /\ proof.stamp_index
                    \notin batches[proof.batch_id].used_stamps
               => validate(batches, chunk, proof) = "invalid stamp index"
    /\ \A id \in DOMAIN batches :
         \A index \in batches[id].used_stamps :
            0 <= index /\ index < 2 ^ batches[id].depth

\* a batch of depth 1 holds both of its stamps as used, and a proof with
\* index 2 for it, in time and well signed, is rejected for its index
C25_Witness ==
    \E id \in DOMAIN batches :
        /\ batches[id].depth = 1
        /\ batches[id].used_stamps = {0, 1}
        /\ batches[id].expires_at > 0
        /\ validate(batches, 1, [batch_id |-> id, stamp_index |-> 2,
                                 timestamp |-> 0, signature_ok |-> TRUE])
             = "invalid stamp index"

C26_ImmutableSlotsIssuedOnce ==
    [][/\ pat.state = "live" /\ pat.immutable
       /\ last'.op = "inc" /\ last'.result = "Ok"
       /\ landed' # landed
       => /\ last'.x \in DOMAIN landed
          /\ landed'[last'.x] = landed[last'.x] + 1
          /\ last'.y = landed[last'.x]]_vars

\* the second successful inc that landed in one bucket of an immutable batch
\* has returned sequence 1, while another bucket has issued its sequence 0
C26_Witness ==
    /\ pat.state = "live" /\ pat.immutable
    /\ last.op = "inc" /\ last.result = "Ok"
    /\ last.y = 1
    /\ landed[last.x] = 2
    /\ \E x \in DOMAIN landed : x # last.x /\ landed[x] = 1

\* C27: a stamp() whose slot assignment fails with BucketFull returns that
\* error without invoking the signer and leaves every bucket counter and the
\* utilization as they were; a stamp() that gets a slot has changed the
\* counter of exactly one bucket, the one its chunk address maps to, and
\* holds the slot before the signer is invoked; the signer signs for that
\* slot and the signing changes no counter.
C27_SlotBeforeSigning ==
    [][last'.op = "stamp" /\ pat.state = "live" =>
        /\ last'.result = "BucketFull" =>
             /\ ~last'.signed
             /\ pat'.stamping = None
             /\ pat'.buckets = pat.buckets
             /\ pat'.max_bucket_depth = pat.max_bucket_depth
        /\ last'.result = "signing" =>
             LET x == get_x(last'.address, pat.batch_bucket_depth)
             IN  /\ ~last'.signed
                 /\ pat.stamping = None /\ pat'.stamping # None
                 /\ pat'.stamping[1].x = x
                 /\ pat'.stamping[1].y = pat.buckets[x]
                 /\ pat'.buckets[x] # pat.buckets[x]
                 /\ \A z \in DOMAIN pat.buckets \ {x} :
                        pat'.buckets[z] = pat.buckets[z]
        /\ last'.result = "Ok" =>
             /\ last'.signed
             /\ pat.stamping # None /\ pat'.stamping = None
             /\ last'.stamp.x = pat.stamping[1].x
             /\ last'.stamp.y = pat.stamping[1].y
             /\ pat'.buckets = pat.buckets
             /\ pat'.max_bucket_depth = pat.max_bucket_depth]_vars

\* a stamp() on an immutable batch has failed with BucketFull after stamps
\* had been issued
C27_Witness ==
    /\ pat.state = "live"
    /\ last.op = "stamp" /\ last.result = "BucketFull"
    /\ pat.max_bucket_depth > 0
    /\ landed[get_x(last.address, pat.batch_bucket_depth)] > 0

\* C28: rehydrate fails with BatchNotFound exactly when the store holds no
\* record for the accountant's batch id, and then changes nothing; otherwise
\* it overwrites depth, bucket depth, creation block and immutability with
\* the stored values and nothing else: every bucket counter and the
\* utilization stay as they were.
C28_RehydrateFrame ==
    [][last'.op = "rehydrate" =>
        /\ last'.result = "BatchNotFound"
             <=> pat.batch_id \notin DOMAIN last'.store
        /\ last'.result = "BatchNotFound" => pat' = pat
        /\ last'.result # "BatchNotFound" =>
             /\ last'.result = "Ok"
             /\ LET batch == last'.store[pat.batch_id]
                IN  pat' = [pat EXCEPT
                              !.batch_depth = batch.depth,
                              !.batch_bucket_depth = batch.bucket_depth,
                              !.block_created = batch.block_created,
                              !.immutable = batch.immutable]
             /\ pat'.buckets = pat.buckets
             /\ pat'.max_bucket_depth = pat.max_bucket_depth]_vars

\* an accountant with used buckets has been rehydrated from a stored record
C28_Witness ==
    /\ pat.state = "live"
    /\ last.op = "rehydrate" /\ last.result = "Ok"
    /\ pat.block_created = Some(5)
    /\ pat.max_bucket_depth > 0
    /\ \E x \in DOMAIN pat.buckets : pat.buckets[x] > 0

\* C31: a successful rehydrate(store, signer) of an accountant whose signer
\* is unset leaves it holding the supplied signer and a bucket array of
\* length 2^bucket_depth for the rehydrated bucket depth, and the stamp()
\* that follows neither aborts for the missing signer nor indexes outside
\* the bucket array.
C31_RehydrateRestoresSignerAndBuckets ==
    [][/\ /\ last'.op = "rehydrate" /\ last'.result = "Ok"
          /\ pat.state = "live" /\ pat.signer = None
          => /\ pat'.signer = Some(PatSigner)
             /\ Cardinality(DOMAIN pat'.buckets)
                  = 2 ^ pat'.batch_bucket_depth
       /\ /\ last.op = "rehydrate" /\ last.result = "Ok"
          /\ last'.op = "stamp"
          => last'.result # "panic"]_vars

====
